---- MODULE Spec2Model ----
(***************************************************************************)
(* Model of cmd/mock-driver/main.go: the bootstrap of the mock CSI driver.  *)
(* main() reads the endpoints from the environment, decides between one    *)
(* combined server and a controller/node pair, acquires the listeners,     *)
(* starts the servers, waits for a termination signal and stops them.      *)
(*                                                                         *)
(* Strings that the code inspects (endpoints, paths) are sequences of      *)
(* one-character strings, so that ToLower, HasPrefix and SplitN are         *)
(* computed as the Go library computes them.                               *)
(***************************************************************************)
EXTENDS Integers, Sequences, FiniteSets, TLC

\* ------------------------------------------------------------------ bounds
\* Number of termination signals the environment may deliver in one run.
MaxSignals == 2

\* ----------------------------------------------------------------- strings
EmptyStr == << >>
SchemeSep == <<":", "/", "/">>
UnixPrefix == <<"u", "n", "i", "x", ":", "/", "/">>
TcpPrefix == <<"t", "c", "p", ":", "/", "/">>
ProtoUnix == <<"u", "n", "i", "x">>
ProtoTcp == <<"t", "c", "p">>

\* unicode.ToLower on the characters the endpoints are built from
ToLowerChar(c) ==
    CASE c = "U" -> "u"
      [] c = "N" -> "n"
      [] c = "I" -> "i"
      [] c = "X" -> "x"
      [] c = "T" -> "t"
      [] c = "C" -> "c"
      [] c = "P" -> "p"
      [] OTHER -> c

\* strings.ToLower
ToLower(s) == [i \in 1..Len(s) |-> ToLowerChar(s[i])]

\* strings.HasPrefix
HasPrefix(s, prefix) ==
    /\ Len(s) >= Len(prefix)
    /\ SubSeq(s, 1, Len(prefix)) = prefix

\* strings.Index, 1-based; 0 when sep does not occur (Go: -1)
Index(s, sep) ==
    LET hits == {i \in 1..Len(s) :
                    /\ i + Len(sep) - 1 <= Len(s)
                    /\ SubSeq(s, i, i + Len(sep) - 1) = sep}
    IN IF hits = {} THEN 0
       ELSE CHOOSE i \in hits : \A j \in hits : i <= j

\* strings.SplitN(s, sep, 2)
SplitN2(s, sep) ==
    LET i == Index(s, sep)
    IN IF i = 0 THEN <<s>>
       ELSE <<SubSeq(s, 1, i - 1), SubSeq(s, i + Len(sep), Len(s))>>

\* ------------------------------------------------------------------ errors
\* An error value: its kind, the string it names and the cause it wraps.
NilErr == [kind |-> "nil", arg |-> EmptyStr, cause |-> "nil"]
ErrInvalidEndpoint(ep) == [kind |-> "InvalidEndpoint", arg |-> ep, cause |-> "nil"]
ErrRemove(path, cause) == [kind |-> "RemoveFailed", arg |-> path, cause |-> cause]
ErrListen(addr, cause) == [kind |-> "ListenFailed", arg |-> addr, cause |-> cause]

\* --------------------------------------------------------- parseEndpoint
parseEndpoint(ep) ==
    IF HasPrefix(ToLower(ep), UnixPrefix) \/ HasPrefix(ToLower(ep), TcpPrefix)
    THEN LET s == SplitN2(ep, SchemeSep)
         IN IF s[2] # EmptyStr
            THEN [proto |-> s[1], addr |-> s[2], err |-> NilErr]
            ELSE [proto |-> EmptyStr, addr |-> EmptyStr, err |-> ErrInvalidEndpoint(ep)]
    ELSE [proto |-> ProtoUnix, addr |-> ep, err |-> NilErr]

\* ------------------------------------------------------------ file system
\* What a path holds: nothing, a stale socket file that can be removed, a
\* file or directory that cannot be removed, a path whose directory is
\* missing, or the socket file of a bound listener (owner = the listener's
\* member).  A path whose name is too long for a socket address holds a
\* removable file ("longfile") or nothing ("longabsent").
Absent == [kind |-> "absent", owner |-> "none"]
Stale == [kind |-> "stale", owner |-> "none"]
Locked == [kind |-> "locked", owner |-> "none"]
NoDir == [kind |-> "nodir", owner |-> "none"]
LongFile == [kind |-> "longfile", owner |-> "none"]
LongAbsent == [kind |-> "longabsent", owner |-> "none"]
Sock(id) == [kind |-> "sock", owner |-> id]

\* Path resolution: successive slashes name the same file as one slash
RECURSIVE CleanPath(_)
CleanPath(path) ==
    IF Len(path) < 2 THEN path
    ELSE IF path[1] = "/" /\ path[2] = "/" THEN CleanPath(Tail(path))
    ELSE <<path[1]>> \o CleanPath(Tail(path))

\* What the file system f holds at path; nothing at a path it does not
\* know
FileAt(f, path) ==
    IF CleanPath(path) \in DOMAIN f THEN f[CleanPath(path)] ELSE Absent

\* The file system f with v at path
PutFile(f, path, v) ==
    IF CleanPath(path) \in DOMAIN f THEN [f EXCEPT ![CleanPath(path)] = v] ELSE f

\* os.Remove: the errno it returns
RemoveErrno(f, path) ==
    CASE FileAt(f, path).kind \in {"stale", "sock", "longfile"} -> "nil"
      [] FileAt(f, path).kind \in {"absent", "nodir", "longabsent"} -> "ENOENT"
      [] OTHER -> "EPERM"

\* os.Remove: the file system it leaves
RemoveFs(f, path) ==
    IF RemoveErrno(f, path) # "nil" THEN f
    ELSE IF FileAt(f, path).kind = "longfile" THEN PutFile(f, path, LongAbsent)
    ELSE PutFile(f, path, Absent)

\* os.IsNotExist
IsNotExist(errno) == errno = "ENOENT"

\* net.Listen: the errno of binding proto at addr
BindErrno(f, p, proto, addr) ==
    CASE proto = ProtoUnix ->
            (CASE FileAt(f, addr).kind = "absent" -> "nil"
               [] FileAt(f, addr).kind = "nodir" -> "ENOENT"
               [] FileAt(f, addr).kind \in {"longfile", "longabsent"} -> "EINVAL"
               [] OTHER -> "EADDRINUSE")
      [] proto = ProtoTcp -> (IF addr \in p THEN "EADDRINUSE" ELSE "nil")
      [] OTHER -> "UnknownNetwork"

\* ----------------------------------------------------------------- listen
\* Variant: the error of os.Remove is never looked at
RemoveFailed_Ignored(errno) == FALSE

\* main.go:206: err != nil && !os.IsNotExist(err)
RemoveFailed(errno) == errno # "nil" /\ ~IsNotExist(errno)

\* A listener: the member it was acquired for, the network and address it
\* is bound at and the endpoint string it was acquired from.
NilListener == [id |-> "nil", proto |-> EmptyStr, addr |-> EmptyStr, endpoint |-> EmptyStr]
NilCleanup == [kind |-> "nil", path |-> EmptyStr]
NoopCleanup == [kind |-> "noop", path |-> EmptyStr]
RemoveCleanup(path) == [kind |-> "remove", path |-> path]

\* What a call of listen returned (l, cleanup, err), the file system and
\* the ports it left, and what it did on the way.
ListenResult(endpoint, pe, addr, before, lis, cleanup, err, f, p, removeTried, bindTried) ==
    [endpoint |-> endpoint, parsed |-> pe, addr |-> addr, before |-> before,
     l |-> lis, cleanup |-> cleanup, err |-> err, fs |-> f, ports |-> p,
     removeTried |-> removeTried, bindTried |-> bindTried]

\* main.go:214-215: l, err := net.Listen(proto, addr); return l, cleanup, err
listenBind(endpoint, id, pe, addr, before, cleanup, f, p) ==
    IF BindErrno(f, p, pe.proto, addr) # "nil"
    THEN ListenResult(endpoint, pe, addr, before, NilListener, cleanup,
                      ErrListen(addr, BindErrno(f, p, pe.proto, addr)), f, p,
                      pe.proto = ProtoUnix, TRUE)
    ELSE ListenResult(endpoint, pe, addr, before,
                      [id |-> id, proto |-> pe.proto, addr |-> addr,
                       endpoint |-> endpoint],
                      cleanup, NilErr,
                      IF pe.proto = ProtoUnix THEN PutFile(f, addr, Sock(id)) ELSE f,
                      IF pe.proto = ProtoTcp THEN p \cup {addr} ELSE p,
                      pe.proto = ProtoUnix, TRUE)

\* Variant: the cleanup closure captures the address as parseEndpoint
\* returned it, without the "/" put in front
listenUnix_CleanupUnprefixed(endpoint, id, pe, addr, f, p) ==
    IF RemoveFailed(RemoveErrno(f, addr))
    THEN ListenResult(endpoint, pe, addr, FileAt(f, addr), NilListener, NilCleanup,
                      ErrRemove(addr, RemoveErrno(f, addr)), RemoveFs(f, addr), p,
                      TRUE, FALSE)
    ELSE listenBind(endpoint, id, pe, addr, FileAt(f, addr), RemoveCleanup(pe.addr),
                    RemoveFs(f, addr), p)

\* main.go:205-212: the unix branch, addr already prefixed with "/"
listenUnix(endpoint, id, pe, addr, f, p) ==
    IF RemoveFailed(RemoveErrno(f, addr))
    THEN ListenResult(endpoint, pe, addr, FileAt(f, addr), NilListener, NilCleanup,
                      ErrRemove(addr, RemoveErrno(f, addr)), RemoveFs(f, addr), p,
                      TRUE, FALSE)
    ELSE listenBind(endpoint, id, pe, addr, FileAt(f, addr), RemoveCleanup(addr),
                    RemoveFs(f, addr), p)

\* Variant: the removal and the "/" are applied whatever the proto is
listenParsed_NoProtoGuard(endpoint, id, pe, f, p) ==
    IF pe.err # NilErr
    THEN ListenResult(endpoint, pe, pe.addr, Absent, NilListener, NilCleanup,
                      pe.err, f, p, FALSE, FALSE)
    ELSE listenUnix(endpoint, id, pe, <<"/">> \o pe.addr, f, p)

\* main.go:199-215: listen once parseEndpoint returned pe
listenParsed(endpoint, id, pe, f, p) ==
    IF pe.err # NilErr
    THEN ListenResult(endpoint, pe, pe.addr, Absent, NilListener, NilCleanup,
                      pe.err, f, p, FALSE, FALSE)
    ELSE IF pe.proto = ProtoUnix
    THEN listenUnix(endpoint, id, pe, <<"/">> \o pe.addr, f, p)
    ELSE listenBind(endpoint, id, pe, pe.addr, Absent, NoopCleanup, f, p)

\* listen(endpoint), called for the listener of member id on file system f
\* and bound ports p
listen(endpoint, id, f, p) == listenParsed(endpoint, id, parseEndpoint(endpoint), f, p)

\* ------------------------------------------------------------------ inputs
\* Endpoint strings the environment may hold.
EndpointStrings ==
    { EmptyStr,
      <<"a">>,
      <<"b">>,
      <<"u", "n", "i", "x", ":", "/", "/", "a">>,
      <<"u", "n", "i", "x", ":", "/", "/", "/", "a">>,
      <<"U", "N", "I", "X", ":", "/", "/", "a">>,
      <<"u", "n", "i", "x", ":", "/", "/">>,
      <<"t", "c", "p", ":", "/", "/", "h">>,
      <<"t", "c", "p", ":", "/", "/", "g">>,
      <<"T", "c", "p", ":", "/", "/", "h">> }

\* Paths of the file system: "/" (the root directory), "/a" and "/b".
RootPath == <<"/">>
Paths == { RootPath, <<"/", "a">>, <<"/", "b">> }
TcpAddrs == { <<"h">>, <<"g">> }

\* An environment variable is unset or holds a string.
Unset == [set |-> FALSE, val |-> EmptyStr]
EnvSet(v) == [set |-> TRUE, val |-> v]
EndpointEnvValues == {Unset} \cup {EnvSet(v) : v \in EndpointStrings}
StrTrue == <<"t", "r", "u", "e">>
CredsEnvValues == {Unset, EnvSet(StrTrue), EnvSet(<<"T", "r", "u", "e">>)}

\* os.Getenv: the empty string for an unset variable
Getenv(v) == IF v.set THEN v.val ELSE EmptyStr

\* The -hooks-file flag: not given, or a file that cannot be opened, that
\* cannot be read (a directory), that is not a valid hooks document, or
\* that is one.
HooksFiles == {"", "missing.yaml", "dir.yaml", "malformed.yaml", "good.yaml"}

Signals == {"SIGTERM", "SIGHUP", "SIGINT", "SIGQUIT"}
MemberIds == {"d", "dc", "dn"}
AllRoles == {"identity", "controller", "node"}

\* ------------------------------------------------------------------- state
VARIABLES
    envEndpoint,            \* CSI_ENDPOINT
    envControllerEndpoint,  \* CSI_CONTROLLER_ENDPOINT
    envEnableCreds,         \* CSI_ENABLE_CREDS
    hooksFile,              \* the -hooks-file flag
    pc,                     \* main's position
    endpoint,               \* main's local endpoint
    controllerEndpoint,     \* main's local controllerEndpoint
    execHooks,              \* config.ExecHooks: "unset" or "set"
    services,               \* the configurations service.New was called with
    members,                \* the drivers d, dc, dn
    l,                      \* main's local l, the listener last acquired
    defers,                 \* main's deferred calls, in the order deferred
    fs,                     \* the file system: what each path holds
    ports,                  \* the TCP addresses that are bound
    sigRegistered,          \* signal.Notify was called
    sigc,                   \* the channel sigc (capacity 1)
    exit,                   \* how the process ended
    listenLog,              \* what each call of listen did and returned
    hist                    \* counters: Start, Stop and cleanup calls, signals

vars == <<envEndpoint, envControllerEndpoint, envEnableCreds, hooksFile, pc,
          endpoint, controllerEndpoint, execHooks, services, members, l,
          defers, fs, ports, sigRegistered, sigc, exit, listenLog, hist>>

envVars == <<envEndpoint, envControllerEndpoint, envEnableCreds, hooksFile>>

NoMember == [state |-> "none", roles |-> {}, creds |-> FALSE,
             listener |-> NilListener, service |-> 0]
Running == [how |-> "running", code |-> 0]

Init ==
    /\ envEndpoint \in EndpointEnvValues
    /\ envControllerEndpoint \in EndpointEnvValues
    /\ envEnableCreds \in CredsEnvValues
    /\ hooksFile \in HooksFiles
    \* the two optional settings are varied one at a time
    /\ hooksFile = "" \/ ~envEnableCreds.set
    /\ pc = "env"
    /\ endpoint = EmptyStr
    /\ controllerEndpoint = EmptyStr
    /\ execHooks = "unset"
    /\ services = << >>
    /\ members = [m \in MemberIds |-> NoMember]
    /\ l = NilListener
    /\ defers = << >>
    /\ fs \in {f \in [Paths -> {Absent, Stale, Locked, NoDir, LongFile}] :
                    /\ f[RootPath] = Locked
                    /\ f[<<"/", "b">>] \in {Absent, Stale}}
    /\ ports \in SUBSET {<<"h">>}
    /\ sigRegistered = FALSE
    /\ sigc = << >>
    /\ exit = Running
    /\ listenLog = << >>
    /\ hist = [starts |-> [m \in MemberIds |-> 0],
               stops |-> [m \in MemberIds |-> 0],
               cleanups |-> [m \in MemberIds |-> 0],
               signals |-> 0,
               waited |-> FALSE,
               delivered |-> FALSE,
               received |-> FALSE,
               whileServing |-> FALSE,
               stopProblems |-> {}]

\* ------------------------------------------------------------ main: setup
\* Variant: the controller endpoint is taken as it is, without the default
DefaultControllerEndpoint_NoDefault(ce, ep) == ce

\* main.go:56-60: CSI_CONTROLLER_ENDPOINT, or the common endpoint if empty
DefaultControllerEndpoint(ce, ep) == IF Len(ce) = 0 THEN ep ELSE ce

\* main.go:55-60
ReadEnv ==
    /\ pc = "env"
    /\ endpoint' = Getenv(envEndpoint)
    /\ controllerEndpoint' =
           DefaultControllerEndpoint(Getenv(envControllerEndpoint), Getenv(envEndpoint))
    /\ pc' = "hooks"
    /\ UNCHANGED <<envVars, execHooks, services, members, l, defers, fs, ports,
                   sigRegistered, sigc, exit, listenLog, hist>>

\* parseHooksFile: os.Open, ioutil.ReadAll and yaml.UnmarshalStrict succeed
\* only for a readable, valid document
parseHooksFile(file) ==
    CASE file = "good.yaml" -> [hooks |-> "set", err |-> "nil"]
      [] file = "missing.yaml" -> [hooks |-> "unset", err |-> "open"]
      [] file = "dir.yaml" -> [hooks |-> "unset", err |-> "read"]
      [] OTHER -> [hooks |-> "unset", err |-> "unmarshal"]

\* klog.Exitf: log and os.Exit(1); deferred calls do not run
Exitf ==
    /\ pc' = "exited"
    /\ exit' = [how |-> "fatal", code |-> 1]

\* Variant: a hooks file that cannot be loaded ends the process
LoadHooks_Fatal ==
    /\ pc = "hooks"
    /\ IF hooksFile # "" /\ parseHooksFile(hooksFile).err # "nil"
       THEN Exitf /\ UNCHANGED execHooks
       ELSE /\ execHooks' = IF hooksFile # "" THEN parseHooksFile(hooksFile).hooks
                             ELSE execHooks
            /\ pc' = "new"
            /\ UNCHANGED exit
    /\ UNCHANGED <<envVars, endpoint, controllerEndpoint, services, members, l,
                   defers, fs, ports, sigRegistered, sigc, listenLog, hist>>

\* main.go:62-69
LoadHooks ==
    /\ pc = "hooks"
    /\ IF hooksFile # ""
       THEN LET r == parseHooksFile(hooksFile)
            IN IF r.err = "nil" THEN execHooks' = r.hooks
               ELSE UNCHANGED execHooks
       ELSE UNCHANGED execHooks
    /\ pc' = "new"
    /\ UNCHANGED <<envVars, endpoint, controllerEndpoint, services, members, l,
                   defers, fs, ports, sigRegistered, sigc, exit, listenLog, hist>>

\* main.go:72: s := service.New(config)
NewService ==
    /\ pc = "new"
    /\ services' = Append(services, [execHooks |-> execHooks])
    /\ pc' = "topology"
    /\ UNCHANGED <<envVars, endpoint, controllerEndpoint, execHooks, members, l,
                   defers, fs, ports, sigRegistered, sigc, exit, listenLog, hist>>

\* Variant: the value is compared in any letter case
CredsEnabled_AnyCase(setCreds) == Len(setCreds) > 0 /\ ToLower(setCreds) = StrTrue

\* main.go:83-86, 130-134: the CSI_ENABLE_CREDS test
CredsEnabled(setCreds) == Len(setCreds) > 0 /\ setCreds = StrTrue

\* main.go:74: the topology test
IsCombined(ep, cep) == ep = cep

\* main.go:75-80: the roles of the combined driver
CombinedRoles == {"controller", "identity", "node"}
\* main.go:118-122: the roles of the controller driver
ControllerRoles == {"controller", "identity"}
\* Variant: the node driver without the identity role
NodeRoles_NoIdentity == {"node"}
\* main.go:124-128: the roles of the node driver
NodeRoles == {"node", "identity"}

NewDriver(roles, creds, svc) ==
    [state |-> "constructed", roles |-> roles, creds |-> creds,
     listener |-> NilListener, service |-> svc]

\* main.go:74-86
BuildCombined ==
    /\ pc = "topology"
    /\ IsCombined(endpoint, controllerEndpoint)
    /\ members' = [members EXCEPT !["d"] =
           NewDriver(CombinedRoles, CredsEnabled(Getenv(envEnableCreds)), Len(services))]
    /\ pc' = "listen"
    /\ UNCHANGED <<envVars, endpoint, controllerEndpoint, execHooks, services, l,
                   defers, fs, ports, sigRegistered, sigc, exit, listenLog, hist>>

\* Variant: the node driver is given a service instance of its own
BuildSplit_TwoServices ==
    /\ pc = "topology"
    /\ ~IsCombined(endpoint, controllerEndpoint)
    /\ services' = Append(services, [execHooks |-> execHooks])
    /\ members' = [members EXCEPT
           !["dc"] = NewDriver(ControllerRoles, CredsEnabled(Getenv(envEnableCreds)),
                               Len(services)),
           !["dn"] = NewDriver(NodeRoles, CredsEnabled(Getenv(envEnableCreds)),
                               Len(services) + 1)]
    /\ pc' = "listenController"
    /\ UNCHANGED <<envVars, endpoint, controllerEndpoint, execHooks, l,
                   defers, fs, ports, sigRegistered, sigc, exit, listenLog, hist>>

\* main.go:117-134
BuildSplit ==
    /\ pc = "topology"
    /\ ~IsCombined(endpoint, controllerEndpoint)
    /\ members' = [members EXCEPT
           !["dc"] = NewDriver(ControllerRoles, CredsEnabled(Getenv(envEnableCreds)),
                               Len(services)),
           !["dn"] = NewDriver(NodeRoles, CredsEnabled(Getenv(envEnableCreds)),
                               Len(services))]
    /\ pc' = "listenController"
    /\ UNCHANGED <<envVars, endpoint, controllerEndpoint, execHooks, services, l,
                   defers, fs, ports, sigRegistered, sigc, exit, listenLog, hist>>

\* ------------------------------------------------- main: listen and start
\* The part of a listen result that the log keeps
LogEntry(r) ==
    [endpoint |-> r.endpoint, parsed |-> r.parsed, addr |-> r.addr,
     before |-> r.before, l |-> r.l, cleanup |-> r.cleanup, err |-> r.err,
     removeTried |-> r.removeTried, bindTried |-> r.bindTried,
     after |-> IF r.parsed.proto = ProtoUnix /\ r.parsed.err = NilErr
               THEN FileAt(r.fs, r.addr) ELSE Absent]

\* l, cleanup, err := listen(ep); if err != nil { klog.Exitf }; defer cleanup()
\* with r what listen did
ListenApply(m, r, nextPc) ==
    /\ fs' = r.fs
    /\ ports' = r.ports
    /\ listenLog' = Append(listenLog, LogEntry(r))
    /\ IF r.err # NilErr
       THEN /\ Exitf
            /\ UNCHANGED <<l, defers, members>>
       ELSE /\ l' = r.l
            /\ defers' = Append(defers, [cleanup |-> r.cleanup, of |-> m])
            /\ members' = [members EXCEPT ![m].state = "listening"]
            /\ pc' = nextPc
            /\ UNCHANGED exit
    /\ UNCHANGED <<envVars, endpoint, controllerEndpoint, execHooks, services,
                   sigRegistered, sigc, hist>>

ListenStep(m, ep, nextPc) == ListenApply(m, listen(ep, m, fs, ports), nextPc)

\* driver Start(l): the server takes the listener and begins to serve, or
\* reports an error
DriverStart(d, lis, ok) ==
    IF ok THEN [d EXCEPT !.state = "serving", !.listener = lis]
    ELSE [d EXCEPT !.listener = lis]

\* Variant: the error of Start is dropped and main goes on
StartStep_ErrorDropped(m, nextPc) ==
    \E ok \in BOOLEAN :
       /\ members' = [members EXCEPT ![m] = DriverStart(members[m], l, ok)]
       /\ hist' = [hist EXCEPT !.starts[m] = @ + 1]
       /\ pc' = nextPc
       /\ UNCHANGED <<envVars, endpoint, controllerEndpoint, execHooks, services,
                      l, defers, fs, ports, sigRegistered, sigc, exit, listenLog>>

\* if err := d.Start(l); err != nil { klog.Exitf }
StartStep(m, nextPc) ==
    \E ok \in BOOLEAN :
       /\ members' = [members EXCEPT ![m] = DriverStart(members[m], l, ok)]
       /\ hist' = [hist EXCEPT !.starts[m] = @ + 1]
       /\ IF ok THEN pc' = nextPc /\ UNCHANGED exit
          ELSE Exitf
       /\ UNCHANGED <<envVars, endpoint, controllerEndpoint, execHooks, services,
                      l, defers, fs, ports, sigRegistered, sigc, listenLog>>

\* main.go:89: the endpoint of the combined listener
CombinedListenEndpoint == endpoint
\* Variant: the controller listener on the common endpoint
ControllerListenEndpoint_Common == endpoint
\* main.go:137: the endpoint of the controller listener
ControllerListenEndpoint == controllerEndpoint
\* main.go:153: the endpoint of the node listener
NodeListenEndpoint == endpoint

\* main.go:88-95
CombinedListen == pc = "listen" /\ ListenStep("d", CombinedListenEndpoint, "start")
\* main.go:97-102
CombinedStart == pc = "start" /\ StartStep("d", "notify")
\* Variant: the node listener is acquired right after the controller's,
\* before the controller driver is started
ControllerListen_ThenNodeListen ==
    pc = "listenController" /\ ListenStep("dc", ControllerListenEndpoint, "listenNode")
\* main.go:136-143
ControllerListen ==
    pc = "listenController" /\ ListenStep("dc", ControllerListenEndpoint, "startController")
\* main.go:145-150
ControllerStart == pc = "startController" /\ StartStep("dc", "listenNode")
\* main.go:152-159
NodeListen == pc = "listenNode" /\ ListenStep("dn", NodeListenEndpoint, "startNode")
\* main.go:161-166
NodeStart == pc = "startNode" /\ StartStep("dn", "notifySplit")

\* ------------------------------------------------- main: wait and stop
\* main.go:104-112 and 168-176: sigc := make(chan os.Signal, 1); signal.Notify
NotifyStep ==
    /\ sigRegistered' = TRUE
    /\ pc' = "wait"
    /\ hist' = [hist EXCEPT !.waited = TRUE]
    /\ UNCHANGED <<envVars, endpoint, controllerEndpoint, execHooks, services,
                   members, l, defers, fs, ports, sigc, exit, listenLog>>

\* main.go:104-112
CombinedNotify == pc = "notify" /\ NotifyStep
\* main.go:168-176
SplitNotify == pc = "notifySplit" /\ NotifyStep

\* main.go:114 and 178: <-sigc
WaitSignal ==
    /\ pc = "wait"
    /\ Len(sigc) > 0
    /\ sigc' = Tail(sigc)
    /\ pc' = IF members["d"].state # "none" THEN "stop" ELSE "stopController"
    /\ hist' = [hist EXCEPT !.received = TRUE]
    /\ UNCHANGED <<envVars, endpoint, controllerEndpoint, execHooks, services,
                   members, l, defers, fs, ports, sigRegistered, exit, listenLog>>

\* Closing a listener releases its address; closing a unix listener that
\* net.Listen created also unlinks its path.
CloseFs(lis, f) ==
    IF lis.proto = ProtoUnix /\ FileAt(f, lis.addr).kind = "sock"
    THEN PutFile(f, lis.addr, Absent) ELSE f
ClosePorts(lis, p) == IF lis.proto = ProtoTcp THEN p \ {lis.addr} ELSE p

\* driver Stop(), first half: the server stops accepting and closes its
\* listener, in-flight calls drain
StopCall(m, nextPc) ==
    /\ members' = [members EXCEPT ![m].state = "stopping"]
    /\ fs' = CloseFs(members[m].listener, fs)
    /\ ports' = ClosePorts(members[m].listener, ports)
    /\ hist' = [hist EXCEPT !.stops[m] = @ + 1]
    /\ pc' = nextPc
    /\ UNCHANGED <<envVars, endpoint, controllerEndpoint, execHooks, services,
                   l, defers, sigRegistered, sigc, exit, listenLog>>

\* driver Stop(), second half: the drain is over and Stop returns; a
\* problem it met on the way is logged, Stop returns no value
StopReturn(m, nextPc) ==
    \E problem \in BOOLEAN :
       /\ members' = [members EXCEPT ![m].state = "stopped"]
       /\ hist' = [hist EXCEPT !.stopProblems =
                      IF problem THEN @ \cup {m} ELSE @]
       /\ pc' = nextPc
       /\ UNCHANGED <<envVars, endpoint, controllerEndpoint, execHooks, services,
                      l, defers, fs, ports, sigRegistered, sigc, exit, listenLog>>

\* main.go:115
CombinedStop == pc = "stop" /\ StopCall("d", "stopDrain")
CombinedStopped == pc = "stopDrain" /\ StopReturn("d", "return")
\* main.go:179
ControllerStop == pc = "stopController" /\ StopCall("dc", "stopControllerDrain")
\* Variant: a problem in dc.Stop() makes main return at once
ControllerStopped_AbortOnProblem ==
    /\ pc = "stopControllerDrain"
    /\ \E problem \in BOOLEAN :
          /\ members' = [members EXCEPT !["dc"].state = "stopped"]
          /\ hist' = [hist EXCEPT !.stopProblems =
                         IF problem THEN @ \cup {"dc"} ELSE @]
          /\ pc' = IF problem THEN "return" ELSE "stopNode"
    /\ UNCHANGED <<envVars, endpoint, controllerEndpoint, execHooks, services,
                   l, defers, fs, ports, sigRegistered, sigc, exit, listenLog>>
\* Variant: main returns after dc.Stop() without stopping the node driver
ControllerStopped_SkipNode == pc = "stopControllerDrain" /\ StopReturn("dc", "return")
ControllerStopped == pc = "stopControllerDrain" /\ StopReturn("dc", "stopNode")
\* Variant: the second Stop is called on the controller driver again
NodeStop_ControllerAgain == pc = "stopNode" /\ StopCall("dc", "stopNodeDrain")
\* main.go:180
NodeStop == pc = "stopNode" /\ StopCall("dn", "stopNodeDrain")
NodeStopped == pc = "stopNodeDrain" /\ StopReturn("dn", "return")

\* The cleanup closure of listen (main.go:203, 209-211)
RunCleanup(c, f) == IF c.kind = "remove" THEN RemoveFs(f, c.path) ELSE f

\* The file system after the deferred calls ran, last deferred first
RECURSIVE RunDefers(_, _)
RunDefers(ds, f) ==
    IF ds = << >> THEN f
    ELSE RunDefers(SubSeq(ds, 1, Len(ds) - 1), RunCleanup(ds[Len(ds)].cleanup, f))

\* How often the deferred calls ran the cleanup of member m's listener
DeferredRuns(ds, m) == Cardinality({i \in 1..Len(ds) : ds[i].of = m})

\* main.go:183: main returns, the deferred cleanups run, the process
\* exits with status 0
Return ==
    /\ pc = "return"
    /\ fs' = RunDefers(defers, fs)
    /\ hist' = [hist EXCEPT !.cleanups =
                   [m \in MemberIds |-> @[m] + DeferredRuns(defers, m)]]
    /\ defers' = << >>
    /\ pc' = "exited"
    /\ exit' = [how |-> "return", code |-> 0]
    /\ UNCHANGED <<envVars, endpoint, controllerEndpoint, execHooks, services,
                   members, l, ports, sigRegistered, sigc, listenLog>>

\* ----------------------------------------------------------- environment
\* A termination signal arrives.  Once signal.Notify was called it is put
\* on sigc unless the channel is full; before that the default action of
\* the signal ends the process.
Signal ==
    /\ pc # "exited"
    /\ hist.signals < MaxSignals
    /\ \E sig \in Signals :
          IF sigRegistered
          THEN /\ sigc' = IF Len(sigc) < 1 THEN Append(sigc, sig) ELSE sigc
               /\ UNCHANGED <<pc, exit>>
          ELSE /\ pc' = "exited"
               /\ exit' = [how |-> "signal", code |-> 2]
               /\ UNCHANGED sigc
    /\ hist' = [hist EXCEPT
                   !.signals = @ + 1,
                   !.delivered = @ \/ sigRegistered,
                   !.whileServing = @ \/ \E m \in MemberIds : members[m].state = "serving"]
    /\ UNCHANGED <<envVars, endpoint, controllerEndpoint, execHooks, services,
                   members, l, defers, fs, ports, sigRegistered, listenLog>>

Next ==
    \/ ReadEnv
    \/ LoadHooks
    \/ NewService
    \/ BuildCombined
    \/ BuildSplit
    \/ CombinedListen
    \/ CombinedStart
    \/ CombinedNotify
    \/ ControllerListen
    \/ ControllerStart
    \/ NodeListen
    \/ NodeStart
    \/ SplitNotify
    \/ WaitSignal
    \/ CombinedStop
    \/ CombinedStopped
    \/ ControllerStop
    \/ ControllerStopped
    \/ NodeStop
    \/ NodeStopped
    \/ Return
    \/ Signal

Spec == Init /\ [][Next]_vars

\* ------------------------------------------------------------ properties
Created == {m \in MemberIds : members[m].state # "none"}
AfterTopology == pc \notin {"env", "hooks", "new", "topology", "exited"}
Acquired == {i \in 1..Len(listenLog) : listenLog[i].l # NilListener}
AllServing(ms) == \A m \in ms : members[m].state = "serving"

\* The secondary endpoint is unset, empty or equal to the primary one.
SecondaryDefaults ==
    \/ ~envControllerEndpoint.set
    \/ envControllerEndpoint.val = EmptyStr
    \/ envControllerEndpoint.val = Getenv(envEndpoint)

\* C1: when CSI_CONTROLLER_ENDPOINT is unset, empty or equal to
\* CSI_ENDPOINT, only the combined driver is ever created, it serves the
\* roles identity, controller and node, listen is called at most once and
\* only on the primary endpoint, and a process that reached the signal
\* wait acquired exactly one listener.
C1_CombinedTopology ==
    SecondaryDefaults =>
       /\ Created \subseteq {"d"}
       /\ AfterTopology =>
             /\ Created = {"d"}
             /\ members["d"].roles = {"identity", "controller", "node"}
       /\ Len(listenLog) <= 1
       /\ \A i \in 1..Len(listenLog) : listenLog[i].endpoint = Getenv(envEndpoint)
       /\ hist.waited =>
             /\ Cardinality(Acquired) = 1
             /\ members["d"].listener.endpoint = Getenv(envEndpoint)

C1_Witness ==
    /\ SecondaryDefaults
    /\ pc = "wait"
    /\ members["d"].state = "serving"
    /\ envControllerEndpoint.set
    /\ envControllerEndpoint.val # EmptyStr

\* C2: when CSI_CONTROLLER_ENDPOINT is non-empty and differs from
\* CSI_ENDPOINT, exactly the controller driver and the node driver are
\* created, with the roles {identity, controller} and {identity, node},
\* and a process that reached the signal wait acquired exactly two
\* listeners, one handed to each driver.
C2_SplitTopology ==
    ~SecondaryDefaults =>
       /\ Created \subseteq {"dc", "dn"}
       /\ AfterTopology =>
             /\ Created = {"dc", "dn"}
             /\ members["dc"].roles = {"identity", "controller"}
             /\ members["dn"].roles = {"identity", "node"}
       /\ Len(listenLog) <= 2
       /\ hist.waited =>
             /\ Cardinality(Acquired) = 2
             /\ members["dc"].listener.id = "dc"
             /\ members["dn"].listener.id = "dn"

C2_Witness ==
    /\ ~SecondaryDefaults
    /\ pc = "wait"
    /\ AllServing({"dc", "dn"})

\* C3 as stated: in split topology the controller driver serves on the
\* listener of CSI_ENDPOINT and the node driver on the listener of
\* CSI_CONTROLLER_ENDPOINT.
C3_ControllerOnPrimary ==
    ~SecondaryDefaults =>
       /\ members["dc"].state = "serving" =>
             members["dc"].listener.endpoint = Getenv(envEndpoint)
       /\ members["dn"].state = "serving" =>
             members["dn"].listener.endpoint = Getenv(envControllerEndpoint)

\* C3 amended: in split topology the controller driver serves on the
\* listener of CSI_CONTROLLER_ENDPOINT and the node driver on the listener
\* of CSI_ENDPOINT.
C3_ControllerOnSecondary ==
    ~SecondaryDefaults =>
       /\ members["dc"].state = "serving" =>
             members["dc"].listener.endpoint = Getenv(envControllerEndpoint)
       /\ members["dn"].state = "serving" =>
             members["dn"].listener.endpoint = Getenv(envEndpoint)

\* primary tcp://h, secondary tcp://g: controller on g, node on h
C3_Witness ==
    /\ Getenv(envEndpoint) = <<"t", "c", "p", ":", "/", "/", "h">>
    /\ Getenv(envControllerEndpoint) = <<"t", "c", "p", ":", "/", "/", "g">>
    /\ AllServing({"dc", "dn"})
    /\ members["dc"].listener.addr = <<"g">>
    /\ members["dn"].listener.addr = <<"h">>

\* The socket file of a driver's listener is gone.
SocketGone(m) ==
    members[m].listener.proto = ProtoUnix => FileAt(fs, members[m].listener.addr) = Absent

\* C4: when the process has exited after a termination signal was
\* delivered to it past signal.Notify, every driver that was started is
\* stopped and the socket file of every unix listener does not exist.
C4_StoppedBeforeExit ==
    (pc = "exited" /\ hist.delivered) =>
       /\ exit.how = "return"
       /\ \A m \in Created :
             /\ hist.starts[m] = 1
             /\ members[m].state = "stopped"
             /\ SocketGone(m)

C4_Witness ==
    /\ pc = "exited"
    /\ hist.delivered
    /\ Created = {"dc", "dn"}
    /\ members["dc"].listener.proto = ProtoUnix
    /\ members["dn"].listener.proto = ProtoUnix
    /\ members["dn"].listener.addr = members["dc"].listener.addr

\* C5 as stated: when the process has ended by returning from main or by
\* a fatal startup error, the cleanup of every listener that was acquired
\* has run exactly once.
C5_CleanupOnEveryExit ==
    /\ \A m \in MemberIds : hist.cleanups[m] <= 1
    /\ (pc = "exited" /\ exit.how \in {"return", "fatal"}) =>
          \A i \in Acquired : hist.cleanups[listenLog[i].l.id] = 1

\* A listen call failed, or a driver's Start returned an error.
StartupFailed ==
    \/ \E i \in 1..Len(listenLog) : listenLog[i].err # NilErr
    \/ \E m \in MemberIds : hist.starts[m] = 1 /\ members[m].state = "listening"

\* C6: a failed listen (resolution, removal or bind) or a failed Start ends
\* the process with status 1, the signal wait was never entered and Stop
\* was called on no driver; the signal wait is entered only with every
\* driver of the chosen topology started and serving.
C6_StartupFailureIsFatal ==
    /\ StartupFailed =>
          /\ pc = "exited"
          /\ exit = [how |-> "fatal", code |-> 1]
          /\ ~hist.waited
          /\ \A m \in MemberIds : hist.stops[m] = 0
    /\ exit.how = "fatal" => StartupFailed
    /\ hist.waited =>
          /\ Created \in {{"d"}, {"dc", "dn"}}
          /\ \A m \in Created : hist.starts[m] = 1
    /\ pc = "wait" => AllServing(Created)

\* the node listener failed while the controller driver was serving
C6_Witness ==
    /\ exit.how = "fatal"
    /\ Len(listenLog) = 2
    /\ listenLog[2].err # NilErr
    /\ members["dc"].state = "serving"

\* parseEndpoint on e, matched case-insensitively against prefix, returned
\* r: the kind proto and the remainder, or an error naming e if the
\* remainder is empty.
ResolvedAs(e, r, prefix, proto) ==
    HasPrefix(ToLower(e), prefix) =>
       IF Len(e) > Len(prefix)
       THEN /\ r.err = NilErr
            /\ r.proto = proto
            /\ r.addr = SubSeq(e, Len(prefix) + 1, Len(e))
       ELSE r.err = ErrInvalidEndpoint(e)

\* C7 as stated: every endpoint that listen resolved and that starts with
\* unix:// or tcp:// in any letter case was resolved to the kind "unix"
\* respectively "tcp" and the remainder, or to an invalid-endpoint error
\* naming it if the remainder is empty.
C7_CaseInsensitivePrefix ==
    \A i \in 1..Len(listenLog) :
       /\ ResolvedAs(listenLog[i].endpoint, listenLog[i].parsed, UnixPrefix, ProtoUnix)
       /\ ResolvedAs(listenLog[i].endpoint, listenLog[i].parsed, TcpPrefix, ProtoTcp)

\* C8 as stated: every endpoint that parseEndpoint resolved without error
\* has a non-empty address, and the empty endpoint string is not resolved.
C8_AddressNonEmpty ==
    \A i \in 1..Len(listenLog) :
       /\ listenLog[i].parsed.err = NilErr => listenLog[i].parsed.addr # EmptyStr
       /\ listenLog[i].endpoint = EmptyStr => listenLog[i].parsed.err # NilErr

\* What listen did when the path held a stale file.
StaleReplaced(x) ==
    /\ x.removeTried
    /\ x.bindTried
    /\ x.err = NilErr
    /\ x.l # NilListener
    /\ x.l.addr = x.addr
    /\ x.after = Sock(x.l.id)

\* What listen did when the file at the path could not be removed.
RemovalRefused(x) ==
    /\ x.err.kind = "RemoveFailed"
    /\ x.err.arg = x.addr
    /\ x.err.cause \notin {"nil", "ENOENT"}
    /\ ~x.bindTried
    /\ x.l = NilListener
    /\ x.cleanup = NilCleanup
    /\ x.after = x.before

\* C9: a call of listen on an endpoint resolved to the kind "unix" whose
\* path held a stale file removed it and bound a listener there; if the
\* file could not be removed, listen returned an error with the path and
\* the cause, tried no bind and returned neither listener nor cleanup.
C9_StaleSocket ==
    \A i \in 1..Len(listenLog) :
       (listenLog[i].parsed.err = NilErr /\ listenLog[i].parsed.proto = ProtoUnix) =>
          /\ listenLog[i].before = Stale => StaleReplaced(listenLog[i])
          /\ listenLog[i].before = Locked => RemovalRefused(listenLog[i])

C9_Witness ==
    /\ Len(listenLog) = 2
    /\ listenLog[1].before = Stale
    /\ listenLog[1].l # NilListener
    /\ listenLog[2].parsed.proto = ProtoUnix
    /\ listenLog[2].before = Locked
    /\ listenLog[2].err.kind = "RemoveFailed"

LifecycleSteps ==
    { <<"none", "constructed">>, <<"constructed", "listening">>,
      <<"listening", "serving">>, <<"serving", "stopping">>,
      <<"stopping", "stopped">> }

\* C10: every change of a driver's state is one step of constructed ->
\* listening -> serving -> stopping -> stopped, Start and Stop are each
\* called at most once on a driver, and when main has returned each was
\* called exactly once on every driver and the driver is stopped.
C10_Lifecycle ==
    [][\A m \in MemberIds :
          /\ members'[m].state # members[m].state =>
                <<members[m].state, members'[m].state>> \in LifecycleSteps
          /\ hist'.starts[m] <= 1
          /\ hist'.stops[m] <= 1
          /\ (exit'.how = "return" /\ members'[m].state # "none") =>
                /\ hist'.starts[m] = 1
                /\ hist'.stops[m] = 1
                /\ members'[m].state = "stopped"]_vars

C10_Witness ==
    /\ exit.how = "return"
    /\ Created = {"dc", "dn"}
    /\ \A m \in Created : members[m].state = "stopped" /\ hist.stops[m] = 1

\* C11 as stated: with CSI_ENDPOINT unix:///a and CSI_CONTROLLER_ENDPOINT
\* unset, the combined driver serves all three roles on a listener bound
\* at the resolved address /a, no separator being prepended to an address
\* that begins with one.
C11_BoundAtResolvedAddress ==
    ( /\ Getenv(envEndpoint) = <<"u", "n", "i", "x", ":", "/", "/", "/", "a">>
      /\ ~envControllerEndpoint.set
      /\ members["d"].state = "serving" ) =>
       /\ members["d"].roles = {"identity", "controller", "node"}
       /\ members["d"].listener.proto = ProtoUnix
       /\ members["d"].listener.addr = <<"/", "a">>

\* The hooks file is given and cannot be opened, read or parsed.
BadHooksFile == hooksFile \in {"missing.yaml", "dir.yaml", "malformed.yaml"}

\* C12: a hooks file that cannot be opened, read or parsed leaves
\* config.ExecHooks unset and does not end the process: the service is
\* constructed with hooks unset and main goes on to the topology decision,
\* so a fatal exit comes only from listen or Start; hooks are set only
\* when the file was parsed.
C12_HooksFailureNotFatal ==
    /\ BadHooksFile =>
          /\ execHooks = "unset"
          /\ \A i \in 1..Len(services) : services[i].execHooks = "unset"
          /\ exit.how = "fatal" => (Len(services) = 1 /\ Len(listenLog) >= 1)
          /\ pc = "topology" => Len(services) = 1
    /\ execHooks = "set" => hooksFile = "good.yaml"

C12_Witness ==
    /\ hooksFile = "malformed.yaml"
    /\ pc = "wait"
    /\ Len(services) = 1
    /\ services[1].execHooks = "unset"
    /\ AllServing({"dc", "dn"})

\* C13: Start is called on a driver only when its listener has been
\* acquired and is the one main holds; the second call of listen happens
\* only when the controller driver is serving; and signal.Notify and the
\* wait are reached only when every driver of the topology is serving.
C13_StartupOrder ==
    [][/\ \A m \in MemberIds :
             hist'.starts[m] > hist.starts[m] =>
                /\ members[m].state = "listening"
                /\ l.id = m
       /\ (Len(listenLog) = 1 /\ Len(listenLog') = 2) =>
             members["dc"].state = "serving"
       /\ (~hist.waited /\ hist'.waited) =>
             /\ Created \in {{"d"}, {"dc", "dn"}}
             /\ AllServing(Created)]_vars

C13_Witness ==
    /\ pc = "wait"
    /\ Len(listenLog) = 2
    /\ hist.starts["dc"] = 1
    /\ hist.starts["dn"] = 1
    /\ members["dn"].state = "serving"

\* CSI_ENABLE_CREDS holds exactly the string true.
CredsRequested ==
    envEnableCreds.set /\ envEnableCreds.val = <<"t", "r", "u", "e">>

\* C14: every driver that exists has default credentials exactly when
\* CSI_ENABLE_CREDS is the string true, from its construction on (hence
\* before it serves), so in split topology both drivers agree.
C14_DefaultCreds ==
    /\ \A m \in Created : members[m].creds <=> CredsRequested
    /\ Created = {"dc", "dn"} => (members["dc"].creds <=> members["dn"].creds)

C14_Witness ==
    /\ CredsRequested
    /\ AllServing({"dc", "dn"})
    /\ members["dc"].creds
    /\ members["dn"].creds

\* C15: in split topology, once the signal was received the process ends
\* only by returning from main, and it reaches that return only after
\* Stop was called on the controller driver and on the node driver and
\* both calls returned, whether or not a Stop met a problem; Stop on the
\* node driver follows the return of Stop on the controller driver.
C15_BestEffortShutdown ==
    (hist.received /\ Created = {"dc", "dn"}) =>
       /\ exit.how \in {"running", "return"}
       /\ pc \in {"stopController", "stopControllerDrain", "stopNode",
                  "stopNodeDrain", "return", "exited"}
       /\ pc \in {"return", "exited"} =>
             /\ hist.stops["dc"] = 1
             /\ hist.stops["dn"] = 1
             /\ members["dc"].state = "stopped"
             /\ members["dn"].state = "stopped"
       /\ members["dc"].state = "stopped" =>
             pc \in {"stopNode", "stopNodeDrain", "return", "exited"}

C15_Witness ==
    /\ exit.how = "return"
    /\ "dc" \in hist.stopProblems
    /\ hist.stops["dn"] = 1
    /\ members["dn"].state = "stopped"

\* C16 as stated: a termination signal that arrived while some driver was
\* serving is never answered by the signal's default action, and when the
\* process has ended it ended by returning from main with every driver
\* stopped and the cleanup of every acquired listener run.
C16_NoSignalLost ==
    hist.whileServing =>
       /\ exit.how # "signal"
       /\ pc = "exited" =>
             /\ exit.how = "return"
             /\ \A m \in Created : members[m].state = "stopped"
             /\ \A i \in Acquired : hist.cleanups[listenLog[i].l.id] = 1

\* C17 as stated: while a driver is serving on a unix listener, the file
\* at the listener's path is the socket file of that listener; acquiring
\* another listener never removes it.
C17_ServingSocketKept ==
    \A m \in MemberIds :
       (members[m].state = "serving" /\ members[m].listener.proto = ProtoUnix) =>
          FileAt(fs, members[m].listener.addr) = Sock(m)

\* The deferred cleanups that remove a file
RemovingDefers == {i \in 1..Len(defers) : defers[i].cleanup.kind = "remove"}

\* Every file a deferred cleanup would remove is already gone
FilesAlreadyGone ==
    \A i \in RemovingDefers :
       FileAt(fs, defers[i].cleanup.path).kind \in {"absent", "longabsent", "nodir"}

\* The step in which main returns and the deferred cleanups run
CleanupsRun == pc = "return" /\ exit'.how = "return"

C18_Step ==
    /\ \A i \in 1..Len(listenLog') :
          listenLog'[i].err = NilErr =>
             IF listenLog'[i].l.proto = ProtoUnix
             THEN /\ listenLog'[i].cleanup = RemoveCleanup(listenLog'[i].l.addr)
                  /\ listenLog'[i].removeTried
                  /\ listenLog'[i].addr = listenLog'[i].l.addr
             ELSE listenLog'[i].cleanup = NoopCleanup
    /\ CleanupsRun =>
          /\ \A q \in Paths :
                fs'[q] # fs[q] =>
                   /\ fs'[q].kind \in {"absent", "longabsent"}
                   /\ \E i \in RemovingDefers :
                         /\ CleanPath(defers[i].cleanup.path) = q
                         /\ \E j \in 1..Len(listenLog) :
                               /\ listenLog[j].l.id = defers[i].of
                               /\ listenLog[j].l.addr = defers[i].cleanup.path
          /\ FilesAlreadyGone => fs' = fs
          /\ ports' = ports
          /\ members' = members
          /\ exit'.code = 0

\* C18: the cleanup that listen returns for a unix listener removes the
\* path the listener was bound at, which is the path the stale file was
\* removed from, and the cleanup of any other listener removes nothing;
\* when main returns, the deferred cleanups change the file system only at
\* such a path, change nothing when the files are already gone, and leave
\* the ports, the drivers and the exit status alone.
C18_CleanupRemovesBoundPath == [][C18_Step]_vars

\* C18 witness: main returned after the cleanups of a unix listener and of
\* a tcp listener ran, the socket file already removed when the driver
\* stopped.
C18_Witness ==
    /\ exit.how = "return"
    /\ \E i \in 1..Len(listenLog) :
          /\ listenLog[i].l.proto = ProtoUnix
          /\ hist.cleanups[listenLog[i].l.id] = 1
          /\ FileAt(fs, listenLog[i].l.addr) = Absent
    /\ \E i \in 1..Len(listenLog) :
          /\ listenLog[i].l.proto = ProtoTcp
          /\ hist.cleanups[listenLog[i].l.id] = 1

\* C19 as stated: after a call of listen that returned an error, a file
\* that existed at the target path before the call is still there.
C19_FailedListenKeepsFiles ==
    \A i \in 1..Len(listenLog) :
       (/\ listenLog[i].err # NilErr
        /\ listenLog[i].before.kind \in {"stale", "locked", "longfile", "sock"})
          => listenLog[i].after = listenLog[i].before

\* The step in which a call of listen returned an error, and what the log
\* keeps of that call
ListenFailedStep ==
    /\ Len(listenLog') = Len(listenLog) + 1
    /\ listenLog'[Len(listenLog')].err # NilErr
FailedListen == listenLog'[Len(listenLog')]

C19_Step ==
    ListenFailedStep =>
       /\ ports' = ports
       /\ (\/ FailedListen.err.kind \in {"InvalidEndpoint", "RemoveFailed"}
           \/ FailedListen.parsed.proto # ProtoUnix) => fs' = fs
       /\ (FailedListen.err.kind = "ListenFailed" /\ FailedListen.parsed.proto = ProtoUnix) =>
             /\ \A q \in Paths : q # CleanPath(FailedListen.addr) => fs'[q] = fs[q]
             /\ FileAt(fs, FailedListen.addr).kind \in {"stale", "longfile", "sock"} =>
                   FileAt(fs', FailedListen.addr).kind \in {"absent", "longabsent"}
             /\ FileAt(fs, FailedListen.addr).kind \notin {"stale", "longfile", "sock"} =>
                   FileAt(fs', FailedListen.addr) = FileAt(fs, FailedListen.addr)

\* C19 amended: a call of listen that returned an error left the file
\* system unchanged when the endpoint did not resolve, when the removal
\* failed, or when the resolved proto is not "unix"; when the bind of a unix
\* listener failed, a removable file at the target path has been removed
\* and is not put back, and no other path and no port has changed.
C19_FailedListenEffect == [][C19_Step]_vars

\* C19 witness: listen removed the file at a path too long for a socket
\* address, and the bind at that path failed.
C19_Witness ==
    \E i \in 1..Len(listenLog) :
       /\ listenLog[i].err.kind = "ListenFailed"
       /\ listenLog[i].parsed.proto = ProtoUnix
       /\ listenLog[i].before = LongFile
       /\ listenLog[i].after = LongAbsent
       /\ FileAt(fs, listenLog[i].addr) = LongAbsent

C20_Step ==
    /\ Len(services') <= 1
    /\ Created' # {} =>
          /\ Len(services') = 1
          /\ \A m \in Created' : members'[m].service = 1
    /\ Len(listenLog') > 0 => Len(services') = 1
    /\ Len(services') > Len(services) =>
          /\ pc = "new"
          /\ Created = {}
          /\ listenLog = << >>
          /\ services'[1].execHooks = execHooks
    /\ Len(services) = 1 =>
          /\ services' = services
          /\ execHooks' = execHooks

\* C20: at most one service is constructed, and it is constructed once the
\* hooks were loaded, with the configuration as it is then, before any
\* driver is built and before any call of listen; every driver that exists
\* refers to that one service, and from its construction on neither the
\* service nor the configuration changes.
C20_OneService == [][C20_Step]_vars

\* C20 witness: both drivers of the split topology serve and wait for a
\* signal, each referring to the one service, built with the hooks loaded
\* from the hooks file.
C20_Witness ==
    /\ pc = "wait"
    /\ Created = {"dc", "dn"}
    /\ Len(services) = 1
    /\ members["dc"].service = 1
    /\ members["dn"].service = 1
    /\ execHooks = "set"
    /\ services[1].execHooks = "set"

====
